---- MODULE Spec2Model ----
(***************************************************************************)
(* Model of the Luddo AI fine-tuning driver, src/training/train.py.        *)
(*                                                                         *)
(* One run of main() is a state machine: pc is the position in main(),     *)
(* every action is the code between two write_progress calls (at most one *)
(* snapshot is written per action), and the external collaborators (pip,   *)
(* mlx_lm, llama.cpp, ollama, the files read) answer nondeterministically. *)
(* write_progress itself is open(path, 'w') followed by json.dump and the  *)
(* close of the file, so the progress file on disk passes through an empty *)
(* state on every write; wphase records that.                              *)
(*                                                                         *)
(* Assumptions: the progress file, the output directory and the Modelfile  *)
(* are writable (writes to disk do not raise); print does not raise;       *)
(* iteration numbers printed by the fine-tuning process are naturals.      *)
(* Python's None is modelled by the string "None" for string-valued        *)
(* fields and by the empty tuple for numeric ones (<<v>> is the value v).  *)
(* Losses are in thousandths (158 is 0.158, 0 is 0.0).                      *)
(***************************************************************************)
EXTENDS Integers, Sequences, FiniteSets, TLC

VARIABLES
    pc,               \* position in main()
    args,             \* argparse namespace (after LoadConfig: merged with the config file)
    progress_file,    \* <<>> before the first write, else <<data>>: the last dict given to write_progress
    wphase,           \* "idle" | "truncated" | "partial": what the progress file holds on disk
    observed,         \* what the external monitor saw at its last read of the progress file
    checkpoint_file,  \* checkpoint.json: [exists, valid, data]
    resume_from_iter, \* main's resume_from_iter
    loss_history,     \* main's loss_history
    dataset_size,     \* main's dataset_size
    total_iters,      \* main's total_iters
    gguf_path,        \* main's gguf_path: the .gguf file or "None"
    model_source,     \* main's model_source, the FROM line of the Modelfile
    exc,              \* the exception propagating to the outer except clause
    exit_code,        \* <<>> while running, <<code>> once the process has exited
    invoked,          \* history: the steps train, fuse, convert, import started, in order
    outcome,          \* history: how train, fuse, convert and import ended ("ok", "failed", "not_run")
    cli,              \* history: the command line as argparse parsed it
    config_file,      \* the file --config names: [readable, json]
    input_path,       \* the dataset file handed to convert_jsonl_to_mlx_format
    train_data,       \* the examples it wrote to train.jsonl
    valid_data,       \* the examples it wrote to valid.jsonl
    line,             \* <<l>>: the line the read loop has just handled; <<>> outside the loop
    cmd,              \* the command line given to Popen for mlx_lm lora (<<>>: not launched)
    nlines,           \* history: lines read from the fine-tuning process
    nwrites,          \* history: calls of write_progress
    nckpt,            \* history: calls of save_checkpoint
    hf_path           \* convert_to_gguf.py: the directory work_dir/hf_model, [exists, content, existed]

vars == <<pc, args, progress_file, wphase, observed, checkpoint_file,
          resume_from_iter, loss_history, dataset_size, total_iters, gguf_path,
          model_source, exc, exit_code, invoked, outcome, line, cmd, nlines, nwrites, nckpt,
          cli, config_file, input_path, train_data, valid_data, hf_path>>

----------------------------------------------------------------------------
(* Bounds and input sets *)

\* lines of output read from the fine-tuning process in one run
MaxLines == 2

None == "None"

\* argparse default of --epochs
DefaultEpochs == 3

\* "Save checkpoint every 100 iterations"
CheckpointEvery == 100

\* loss_history[-50:] in the snapshots
SnapshotHistory == 50

\* loss_history[-100:] in the checkpoint
CheckpointHistory == 100

\* dataset sizes returned by convert_jsonl_to_mlx_format
DatasetSizes == {10, 800}

\* relative iteration numbers the fine-tuning process prints
RelIters == {1, 50, 100, 200}

\* losses it prints, in thousandths
Losses == {0, 158}

Min(a, b) == IF a < b THEN a ELSE b

Max(a, b) == IF a > b THEN a ELSE b

\* s[-n:]
LastN(s, n) == IF Len(s) <= n THEN s ELSE SubSeq(s, Len(s) - n + 1, Len(s))

----------------------------------------------------------------------------
(* Inputs: the command line, the config file, the checkpoint left on disk *)

\* a command line giving every option; e is --epochs, r is --resume
FullCli(e, r, c) ==
    [base_model |-> "llama3.2:3b", dataset |-> "cli.jsonl", output |-> "cli-out",
     epochs |-> e, progress_file |-> "cli-progress.json", output_dir |-> "cli-dir",
     resume |-> r, config |-> c]

\* a command line giving --config only (argparse defaults elsewhere)
ConfigOnlyCli ==
    [base_model |-> None, dataset |-> None, output |-> None,
     epochs |-> DefaultEpochs, progress_file |-> None, output_dir |-> None,
     resume |-> FALSE, config |-> "run.json"]

\* a command line without --output-dir and without --config
IncompleteCli ==
    [base_model |-> "llama3.2:3b", dataset |-> "cli.jsonl", output |-> "cli-out",
     epochs |-> DefaultEpochs, progress_file |-> "cli-progress.json", output_dir |-> None,
     resume |-> FALSE, config |-> None]

CommandLines ==
    {FullCli(1, FALSE, None), FullCli(DefaultEpochs, TRUE, None),
     FullCli(1, TRUE, "run.json"), ConfigOnlyCli, IncompleteCli}

\* the JSON object of a complete config file
FullConfig ==
    [baseModel |-> "qwen2.5:3b", dataset |-> "cfg.jsonl", output |-> "cfg-out",
     epochs |-> 2, progressFile |-> "cfg-progress.json", outputDir |-> "cfg-dir",
     resume |-> TRUE]

\* config files: one that cannot be opened or parsed, {}, a partial and a full one
ConfigFiles ==
    {[readable |-> FALSE],
     [readable |-> TRUE, json |-> [k \in {} |-> None]],
     [readable |-> TRUE, json |-> [epochs |-> 0, resume |-> TRUE]],
     [readable |-> TRUE, json |-> FullConfig]}

\* the dict save_checkpoint wrote at iteration i of an earlier run of t iterations
EarlierCheckpoint(i, t, ep) ==
    [last_iter |-> i, last_loss |-> 158, epoch |-> ep,
     loss_history |-> <<[step |-> i, loss |-> 158, epoch |-> ep]>>,
     total_iters |-> t, dataset_size |-> 800]

\* checkpoint.json as the run finds it: absent, cut short by an interrupted
\* save, or the complete checkpoint of an earlier run
CheckpointFiles ==
    {[exists |-> FALSE],
     [exists |-> TRUE, valid |-> FALSE],
     [exists |-> TRUE, valid |-> TRUE, data |-> EarlierCheckpoint(100, 200, 1)],
     [exists |-> TRUE, valid |-> TRUE, data |-> EarlierCheckpoint(200, 600, 2)]}

\* dict.get(key, default)
Get(d, key, default) == IF key \in DOMAIN d THEN d[key] ELSE default

\* all([...]) of line 110: None is falsy, a non-empty string is truthy
RequiredPresent(a) ==
    /\ a.base_model # None
    /\ a.dataset # None
    /\ a.output # None
    /\ a.progress_file # None
    /\ a.output_dir # None

\* lines 101-107 with the precedence reversed for the string options: an
\* option given on the command line wins over the config file
MergeConfigCliFirst(a, config) ==
    [base_model |-> IF a.base_model # None THEN a.base_model
                    ELSE Get(config, "baseModel", a.base_model),
     dataset |-> IF a.dataset # None THEN a.dataset ELSE Get(config, "dataset", a.dataset),
     output |-> IF a.output # None THEN a.output ELSE Get(config, "output", a.output),
     epochs |-> Get(config, "epochs", a.epochs),
     progress_file |-> IF a.progress_file # None THEN a.progress_file
                       ELSE Get(config, "progressFile", a.progress_file),
     output_dir |-> IF a.output_dir # None THEN a.output_dir
                    ELSE Get(config, "outputDir", a.output_dir),
     resume |-> Get(config, "resume", a.resume),
     config |-> a.config]

\* lines 101-107: every field of the config file overrides the command line
MergeConfig(a, config) ==
    [base_model |-> Get(config, "baseModel", a.base_model),
     dataset |-> Get(config, "dataset", a.dataset),
     output |-> Get(config, "output", a.output),
     epochs |-> Get(config, "epochs", a.epochs),
     progress_file |-> Get(config, "progressFile", a.progress_file),
     output_dir |-> Get(config, "outputDir", a.output_dir),
     resume |-> Get(config, "resume", a.resume),
     config |-> a.config]

----------------------------------------------------------------------------
(* State after argparse has parsed the command line (line 95) *)

\* the run is at p with command line a, config file cf, checkpoint file ck and
\* dataset file f; nothing has been written or launched
Start(p, a, cf, ck, f) ==
    /\ pc = p
    /\ args = a
    /\ cli = a
    /\ config_file = cf
    /\ input_path = f
    /\ train_data = <<>>
    /\ valid_data = <<>>
    /\ progress_file = <<>>
    /\ wphase = "idle"
    /\ observed = "nothing"
    /\ checkpoint_file = ck
    /\ resume_from_iter = 0
    /\ loss_history = <<>>
    /\ dataset_size = 0
    /\ total_iters = 0
    /\ gguf_path = None
    /\ model_source = None
    /\ exc = None
    /\ exit_code = <<>>
    /\ invoked = <<>>
    /\ outcome = [train |-> "not_run", fuse |-> "not_run", convert |-> "not_run",
                  import |-> "not_run"]
    /\ line = <<>>
    /\ cmd = <<>>
    /\ nlines = 0
    /\ nwrites = 0
    /\ nckpt = 0
    /\ hf_path = [exists |-> FALSE, content |-> "none", existed |-> FALSE]

\* the config files a command line can meet: without --config no file is read
ConfigFilesFor(a, files) == IF a.config = None THEN {[readable |-> FALSE]} ELSE files

\* In Spec the dataset file is represented by the number of its examples
\* (ConvertDataset); its split is the subject of SpecDataset.
Init ==
    \E a \in CommandLines, ck \in CheckpointFiles :
        \E cf \in ConfigFilesFor(a, ConfigFiles) :
            Start("load_config", a, cf, ck, <<>>)

----------------------------------------------------------------------------
(* write_progress and the run's building blocks *)

\* write_progress, line 20: open(progress_file, 'w') truncates the file; the
\* data reaches the disk later, in write_progress_dump
write_progress(data) ==
    /\ progress_file' = <<data>>
    /\ wphase' = "truncated"
    /\ nwrites' = nwrites + 1

\* the statement at pc may run: the previous write_progress has returned
At(p) == pc = p /\ wphase = "idle" /\ exit_code = <<>>

\* an exception leaves the try block for the except clause of line 611
Raise(e) == pc' = "except" /\ exc' = e

\* the fields every snapshot before training shares
EarlySnapshot(stage, progress, message) ==
    [stage |-> stage, progress |-> progress, message |-> message, epoch |-> 0,
     total_epochs |-> args.epochs, loss |-> <<>>, learning_rate |-> <<>>]

\* the variables write_progress assigns
fileVars == <<progress_file, wphase, nwrites>>

\* what the run was given
inputVars == <<cli, config_file>>

\* the files of convert_to_gguf.py, which main() of train.py does not touch
scriptVars == <<hf_path>>

\* convert_jsonl_to_mlx_format's file and its two outputs
splitVars == <<input_path, train_data, valid_data>>

\* main's locals of the training and post-processing phases
postVars == <<gguf_path, model_source, outcome, line, cmd, nlines, nckpt>>

----------------------------------------------------------------------------
(* main(), lines 97-246: configuration, dependencies, resume, dataset *)

\* lines 97-107: the config file is read before the try block is entered, so
\* an exception here is uncaught: traceback on stderr, exit status 1
LoadConfig ==
    /\ At("load_config")
    /\ \/ /\ args.config = None
          /\ pc' = "validate"
          /\ UNCHANGED <<args, inputVars, scriptVars, splitVars, exc, exit_code>>
       \/ /\ args.config # None
          /\ LET cf == config_file IN
                IF cf.readable
                THEN /\ args' = MergeConfig(args, cf.json)
                     /\ pc' = "validate"
                     /\ UNCHANGED <<exc, exit_code>>
                ELSE /\ pc' = "exited"
                     /\ exc' = "config file cannot be read"
                     /\ exit_code' = <<1>>
                     /\ UNCHANGED args
    /\ UNCHANGED <<inputVars, scriptVars, splitVars, fileVars, postVars, observed, checkpoint_file,
                   resume_from_iter, loss_history, dataset_size, total_iters, invoked>>

\* lines 109-113: parser.error prints usage and exits with status 2
Validate ==
    /\ At("validate")
    /\ IF RequiredPresent(args)
       THEN pc' = "initializing" /\ UNCHANGED exit_code
       ELSE pc' = "exited" /\ exit_code' = <<2>>
    /\ UNCHANGED <<args, inputVars, scriptVars, splitVars, fileVars, postVars, observed, checkpoint_file, resume_from_iter,
                   loss_history, dataset_size, total_iters, exc, invoked>>

\* lines 116-128: the first snapshot, then check_mlx_installed()
Initializing ==
    /\ At("initializing")
    /\ write_progress(EarlySnapshot("initializing", 0, "Checking dependencies..."))
    /\ \E installed \in BOOLEAN :
          pc' = IF installed THEN "import_mlx" ELSE "installing"
    /\ UNCHANGED <<args, inputVars, scriptVars, splitVars, postVars, observed, checkpoint_file, resume_from_iter,
                   loss_history, dataset_size, total_iters, exc, exit_code, invoked>>

\* lines 129-138: install_mlx() runs pip with check=True
Installing ==
    /\ At("installing")
    /\ write_progress(EarlySnapshot("installing", 2, "Installing MLX-LM..."))
    /\ \E ok \in BOOLEAN :
          IF ok THEN pc' = "import_mlx" /\ UNCHANGED exc
                ELSE Raise("pip install returned non-zero exit status")
    /\ UNCHANGED <<args, inputVars, scriptVars, splitVars, postVars, observed, checkpoint_file, resume_from_iter,
                   loss_history, dataset_size, total_iters, exit_code, invoked>>

\* lines 140-188: import mlx_lm (ImportError when it is still missing), the
\* loading_model snapshot, then the model-name mapping (pure, cannot raise)
LoadingModel ==
    /\ At("import_mlx")
    /\ \E ok \in BOOLEAN :
          IF ok
          THEN /\ write_progress(EarlySnapshot("loading_model", 5,
                                    <<"Setting up for model", args.base_model>>))
               /\ pc' = "preparing_data"
               /\ UNCHANGED exc
          ELSE /\ Raise("No module named mlx_lm")
               /\ UNCHANGED fileVars
    /\ UNCHANGED <<args, inputVars, scriptVars, splitVars, postVars, observed, checkpoint_file, resume_from_iter,
                   loss_history, dataset_size, total_iters, exit_code, invoked>>

\* lines 190-206: the preparing_data snapshot and the output directory
PreparingData ==
    /\ At("preparing_data")
    /\ write_progress(EarlySnapshot("preparing_data", 10, "Preparing training data..."))
    /\ pc' = "check_resume"
    /\ UNCHANGED <<args, inputVars, scriptVars, splitVars, postVars, observed, checkpoint_file, resume_from_iter,
                   loss_history, dataset_size, total_iters, exc, exit_code, invoked>>

\* load_checkpoint without the os.path.exists test of line 75: open() of a
\* missing file raises
load_checkpoint_unguarded(file) ==
    IF ~file.exists \/ ~file.valid THEN [found |-> TRUE, raised |-> TRUE]
    ELSE [found |-> TRUE, raised |-> FALSE, data |-> file.data]

\* load_checkpoint, lines 73-78: [found, raised, data]
load_checkpoint(file) ==
    IF ~file.exists THEN [found |-> FALSE, raised |-> FALSE]
    ELSE IF ~file.valid THEN [found |-> TRUE, raised |-> TRUE]
    ELSE [found |-> TRUE, raised |-> FALSE, data |-> file.data]

\* the snapshot of lines 217-226
ResumingSnapshot(checkpoint) ==
    [stage |-> "resuming", progress |-> 5,
     message |-> <<"Resuming training from iteration", Get(checkpoint, "last_iter", 0)>>,
     epoch |-> Get(checkpoint, "epoch", 1),
     total_epochs |-> args.epochs,
     loss |-> IF "last_loss" \in DOMAIN checkpoint THEN <<checkpoint.last_loss>> ELSE <<>>,
     learning_rate |-> <<"1e-5">>,
     loss_history |-> LastN(Get(checkpoint, "loss_history", <<>>), SnapshotHistory)]

\* lines 208-226
CheckResume ==
    /\ At("check_resume")
    /\ LET loaded == load_checkpoint(checkpoint_file) IN
          IF ~args.resume \/ ~loaded.found
          THEN /\ resume_from_iter' = 0
               /\ loss_history' = <<>>
               /\ pc' = "convert_dataset"
               /\ UNCHANGED <<fileVars, exc>>
          ELSE IF loaded.raised
          THEN /\ Raise("JSONDecodeError in checkpoint.json")
               /\ UNCHANGED <<fileVars, resume_from_iter, loss_history>>
          ELSE /\ resume_from_iter' = Get(loaded.data, "last_iter", 0)
               /\ loss_history' = Get(loaded.data, "loss_history", <<>>)
               /\ write_progress(ResumingSnapshot(loaded.data))
               /\ pc' = "convert_dataset"
               /\ UNCHANGED exc
    /\ UNCHANGED <<args, inputVars, scriptVars, splitVars, postVars, observed, checkpoint_file, dataset_size,
                   total_iters, exit_code, invoked>>

\* line 245
ItersPerEpoch(n) == Max(1, n \div 4)

\* line 246
TotalIters(n, epochs) == ItersPerEpoch(n) * epochs

\* the fields the snapshots of lines 232-363 share
SetupSnapshot(stage, progress, message, epoch, n) ==
    [stage |-> stage, progress |-> progress, message |-> message, epoch |-> epoch,
     total_epochs |-> args.epochs, loss |-> <<>>, learning_rate |-> <<>>,
     dataset_size |-> n]

\* lines 228-246: convert_jsonl_to_mlx_format raises on a missing dataset or
\* a line that is not JSON, else returns the number of examples
ConvertDataset ==
    /\ At("convert_dataset")
    /\ \/ /\ Raise("dataset cannot be read")
          /\ UNCHANGED <<fileVars, dataset_size, total_iters>>
       \/ \E n \in DatasetSizes :
             /\ dataset_size' = n
             /\ write_progress(SetupSnapshot("starting_training", 15,
                                  <<"Starting LoRA training on examples", n>>, 0, n))
             /\ total_iters' = TotalIters(n, args.epochs)
             /\ pc' = "direct_imports"
             /\ UNCHANGED exc
    /\ UNCHANGED <<args, inputVars, scriptVars, splitVars, postVars, observed, checkpoint_file, resume_from_iter,
                   loss_history, exit_code, invoked>>

----------------------------------------------------------------------------
(* main(), lines 264-463: the direct attempt, then training through the CLI *)

\* lines 264-285: loss_history is assigned [] again; the imports of the
\* inner try block may fail, which the inner except clause swallows
DirectImports ==
    /\ At("direct_imports")
    /\ loss_history' = <<>>
    /\ \E ok \in BOOLEAN :
          IF ok
          THEN /\ write_progress(SetupSnapshot("loading_model", 20, "Loading model...",
                                               0, dataset_size))
               /\ pc' = "direct_load"
          ELSE /\ pc' = "training_start"
               /\ UNCHANGED fileVars
    /\ UNCHANGED <<args, inputVars, scriptVars, splitVars, postVars, observed, checkpoint_file, resume_from_iter,
                   dataset_size, total_iters, exc, exit_code, invoked>>

\* lines 286-351: mlx_lm.load may raise (swallowed at line 350), else the
\* applying_lora snapshot is written
DirectLoad ==
    /\ At("direct_load")
    /\ \E ok \in BOOLEAN :
          IF ok
          THEN write_progress(SetupSnapshot("applying_lora", 25,
                                            "Applying LoRA adapters...", 0, dataset_size))
          ELSE UNCHANGED fileVars
    /\ pc' = "training_start"
    /\ UNCHANGED <<args, inputVars, scriptVars, splitVars, postVars, observed, checkpoint_file, resume_from_iter,
                   loss_history, dataset_size, total_iters, exc, exit_code, invoked>>

\* line 367 without the subtraction: a resumed run asks for every iteration again
RemainingItersFromStart(total, resume) == total

\* line 367
RemainingIters(total, resume) == total - resume

\* line 368 with < for <=
TrainingCompleteStrict(remaining) == remaining < 0

\* line 368: training is already complete
TrainingComplete(remaining) == remaining <= 0

\* lines 372-388: the arguments of mlx_lm lora that vary
LoraCommand(remaining, resume, adapters_exist) ==
    [iters |-> remaining, resume_adapter_file |-> (resume > 0 /\ adapters_exist)]

\* lines 353-398: the training snapshot, then either skip or launch mlx_lm lora
TrainingStart ==
    /\ At("training_start")
    /\ write_progress(SetupSnapshot("training", 30, "Training with MLX LoRA...",
                                    1, dataset_size))
    /\ LET remaining_iters == RemainingIters(total_iters, resume_from_iter) IN
          IF TrainingComplete(remaining_iters)
          THEN /\ pc' = "fusing"
               /\ UNCHANGED <<cmd, invoked>>
          ELSE \E adapters_exist \in BOOLEAN :
                  /\ cmd' = <<LoraCommand(remaining_iters, resume_from_iter, adapters_exist)>>
                  /\ invoked' = Append(invoked, "train")
                  /\ pc' = "reading"
    /\ UNCHANGED <<args, inputVars, scriptVars, splitVars, gguf_path, model_source, outcome, line, nlines, nckpt, observed, checkpoint_file,
                   resume_from_iter, loss_history, dataset_size, total_iters, exc,
                   exit_code>>

\* A line of the process's output, as far as the parsing of lines 404-421
\* looks at it: signal is "'Iter' in line and 'Train loss' in line"; iter is
\* <<n>> when the second word of the text before the first ':' is the
\* integer n, else <<>>; loss_in_first is "'Train loss' in parts[0]"; loss is
\* <<x>> when the text after 'Train loss' in parts[0] is the float x, else <<>>.
Line(signal, iter, loss_in_first, loss) ==
    [signal |-> signal, iter |-> iter, loss_in_first |-> loss_in_first, loss |-> loss]

\* the lines mlx_lm lora may print: "Loading pretrained model" (no markers);
\* "Iter: Train loss 0.158" (no integer); "Iter 1: Train loss --" (no float);
\* "Iter 1: Val loss 0.2, Train loss 0.158" (loss marker after the first
\* comma); and "Iter <iter>: Train loss <loss>, ..."
OutputLines ==
    {Line(FALSE, <<>>, FALSE, <<>>),
     Line(TRUE, <<>>, TRUE, <<158>>),
     Line(TRUE, <<1>>, TRUE, <<>>),
     Line(TRUE, <<1>>, FALSE, <<158>>)}
        \cup {Line(TRUE, <<r>>, TRUE, <<l>>) : r \in RelIters, l \in Losses}

\* lines 405-421: int() of line 412 and float() of line 419 raise ValueError
\* (or IndexError) on text that is no number; train_loss is None (<<>>) when
\* the first segment has no loss marker
ParseLine(l) ==
    IF l.iter = <<>> THEN [raised |-> TRUE]
    ELSE IF ~l.loss_in_first
         THEN [raised |-> FALSE, relative_iter |-> l.iter[1], train_loss |-> <<>>]
    ELSE IF l.loss = <<>> THEN [raised |-> TRUE]
    ELSE [raised |-> FALSE, relative_iter |-> l.iter[1], train_loss |-> l.loss]

\* lines 457-458 without the except clause: the error leaves the loop
ParseErrorsPropagate == FALSE

\* lines 457-458, "except Exception as parse_error: pass"
ParseErrorsSwallowed == TRUE

\* line 414
AbsoluteIter(resume, relative_iter) == resume + relative_iter

\* line 424 without the min(): the epoch runs past the last one
CurrentEpochUncapped(epochs, current_iter, n) ==
    current_iter \div ItersPerEpoch(n) + 1

\* line 424
CurrentEpoch(epochs, current_iter, n) ==
    Min(epochs, current_iter \div ItersPerEpoch(n) + 1)

\* line 425 with the clamp of line 435 left out
TrainingProgressUnclamped(current_iter, total) ==
    30 + (current_iter * 65) \div total

\* line 425 and the clamp of line 435: 30 + int((current_iter / total_iters) * 65),
\* at most 95.  For the naturals of this model the float expression equals
\* the integer quotient.
TrainingProgress(current_iter, total) ==
    Min(30 + (current_iter * 65) \div total, 95)

\* the snapshot of lines 433-445
TrainingSnapshot(current_iter, train_loss, history) ==
    LET current_epoch == CurrentEpoch(args.epochs, current_iter, dataset_size) IN
    [stage |-> "training",
     progress |-> TrainingProgress(current_iter, total_iters),
     message |-> <<"Training epoch", current_epoch, args.epochs>>,
     epoch |-> current_epoch, total_epochs |-> args.epochs,
     loss |-> <<train_loss>>, learning_rate |-> <<"1e-5">>,
     dataset_size |-> dataset_size, step |-> current_iter,
     total_steps |-> total_iters,
     loss_history |-> LastN(history, SnapshotHistory)]

\* the dict of lines 449-456 with the relative iteration of the line in place
\* of the absolute one
CheckpointRelative(current_iter, train_loss, history) ==
    [last_iter |-> current_iter - resume_from_iter, last_loss |-> train_loss,
     epoch |-> CurrentEpoch(args.epochs, current_iter, dataset_size),
     loss_history |-> LastN(history, CheckpointHistory),
     total_iters |-> total_iters, dataset_size |-> dataset_size]

\* the dict of lines 449-456
Checkpoint(current_iter, train_loss, history) ==
    [last_iter |-> current_iter, last_loss |-> train_loss,
     epoch |-> CurrentEpoch(args.epochs, current_iter, dataset_size),
     loss_history |-> LastN(history, CheckpointHistory),
     total_iters |-> total_iters, dataset_size |-> dataset_size]

\* line 423, "if train_loss:": None and a loss of 0.0 are falsy
LossTruthy(train_loss) == train_loss # <<>> /\ train_loss[1] # 0

\* line 448
CheckpointDue(current_iter) == current_iter % CheckpointEvery = 0

\* the line is a progress signal that parsed into an iteration and a
\* truthy loss: lines 424-456 run
Recorded(l) ==
    /\ l.signal
    /\ ~ParseLine(l).raised
    /\ LossTruthy(ParseLine(l).train_loss)

\* lines 400-458: one line, out of lines, of a process that prints at most
\* max of them.  current_iter is not a variable of the model: line 414
\* assigns it before every use.
ReadLineFrom(lines, max) ==
    /\ At("reading")
    /\ nlines < max
    /\ nlines' = nlines + 1
    /\ \E l \in lines :
          /\ line' = <<l>>
          /\ IF Recorded(l)
             THEN LET parsed == ParseLine(l)
                      train_loss == parsed.train_loss[1]
                      current_iter == AbsoluteIter(resume_from_iter, parsed.relative_iter)
                      history == Append(loss_history,
                                        [step |-> current_iter, loss |-> train_loss,
                                         epoch |-> CurrentEpoch(args.epochs, current_iter,
                                                                dataset_size)])
                  IN /\ loss_history' = history
                     /\ write_progress(TrainingSnapshot(current_iter, train_loss, history))
                     /\ IF CheckpointDue(current_iter)
                        THEN /\ checkpoint_file' =
                                   [exists |-> TRUE, valid |-> TRUE,
                                    data |-> Checkpoint(current_iter, train_loss, history)]
                             /\ nckpt' = nckpt + 1
                        ELSE UNCHANGED <<checkpoint_file, nckpt>>
                     /\ UNCHANGED <<pc, exc>>
             ELSE /\ IF l.signal /\ ParseLine(l).raised /\ ~ParseErrorsSwallowed
                     THEN Raise("ValueError in the read loop")
                     ELSE UNCHANGED <<pc, exc>>
                  /\ UNCHANGED <<loss_history, fileVars, checkpoint_file, nckpt>>
    /\ UNCHANGED <<args, inputVars, scriptVars, splitVars, gguf_path, model_source, outcome, cmd, observed, resume_from_iter,
                   dataset_size, total_iters, exit_code, invoked>>

\* lines 400-458 for a process that prints any of OutputLines
ReadLine == ReadLineFrom(OutputLines, MaxLines)

\* line 462 without the test: the exit code is ignored
ExitCodeIgnored(returncode) == FALSE

\* line 462: a non-zero exit code of the process is an error
ExitCodeIsError(returncode) == returncode # 0

\* lines 460-463: the process has closed its output (the loop ends) and exits
ProcessExit ==
    /\ At("reading")
    /\ line' = <<>>
    /\ \E returncode \in {0, 1} :
          /\ outcome' = [outcome EXCEPT !.train = IF returncode = 0 THEN "ok" ELSE "failed"]
          /\ IF ExitCodeIsError(returncode)
             THEN Raise("Training failed with exit code 1")
             ELSE pc' = "fusing" /\ UNCHANGED exc
    /\ UNCHANGED <<args, inputVars, scriptVars, splitVars, fileVars, gguf_path, model_source, cmd, nlines, nckpt, observed,
                   checkpoint_file, resume_from_iter, loss_history, dataset_size,
                   total_iters, exit_code, invoked>>

----------------------------------------------------------------------------
(* main(), lines 465-625: fuse, convert, import, completion, failure *)

\* loss_history[-1]['loss'] if loss_history else None
FinalLoss(history) == IF history = <<>> THEN <<>> ELSE <<history[Len(history)].loss>>

\* the fields the snapshots of lines 465-551 share
PostSnapshot(stage, progress, message) ==
    [stage |-> stage, progress |-> progress, message |-> message,
     epoch |-> args.epochs, total_epochs |-> args.epochs,
     loss |-> FinalLoss(loss_history), learning_rate |-> <<>>,
     dataset_size |-> dataset_size, loss_history |-> loss_history]

\* subprocess.run without check=True: a failing command does not raise
UncheckedRunRaises(ok) == FALSE

\* subprocess.run(..., check=True) raises when the command fails
CheckedRunRaises(ok) == ~ok

\* lines 465-486: the fusing_model snapshot, then mlx_lm fuse
FusingModel ==
    /\ At("fusing")
    /\ write_progress(PostSnapshot("fusing_model", 96, "Fusing adapters with base model..."))
    /\ invoked' = Append(invoked, "fuse")
    /\ \E ok \in BOOLEAN :
          /\ outcome' = [outcome EXCEPT !.fuse = IF ok THEN "ok" ELSE "failed"]
          /\ IF CheckedRunRaises(ok)
             THEN Raise("mlx_lm fuse returned non-zero exit status")
             ELSE pc' = "converting" /\ UNCHANGED exc
    /\ UNCHANGED <<args, inputVars, scriptVars, splitVars, gguf_path, model_source, line, cmd, nlines, nckpt, observed,
                   checkpoint_file, resume_from_iter, loss_history, dataset_size,
                   total_iters, exit_code>>

\* how the conversion block of lines 504-539 can end: the convert script ran
\* and returned 0, it returned non-zero, it is not installed, or the code
\* before it (torch, transformers, save_pretrained) raised
ConversionOutcomes == {"converted", "nonzero", "script_missing", "raised"}

\* lines 502 and 530-539: gguf_path after the conversion block
GgufPathAfter(how) == IF how = "converted" THEN "out.gguf" ELSE None

\* lines 488-539: the converting_gguf snapshot and the conversion block,
\* whose every failure is swallowed
ConvertingGguf ==
    /\ At("converting")
    /\ write_progress(PostSnapshot("converting_gguf", 97, "Converting model to GGUF format..."))
    /\ invoked' = Append(invoked, "convert")
    /\ \E how \in ConversionOutcomes :
          /\ gguf_path' = GgufPathAfter(how)
          /\ outcome' = [outcome EXCEPT
                            !.convert = IF how = "converted" THEN "ok" ELSE "failed"]
    /\ pc' = "importing"
    /\ UNCHANGED <<args, inputVars, scriptVars, splitVars, model_source, line, cmd, nlines, nckpt, observed, checkpoint_file,
                   resume_from_iter, loss_history, dataset_size, total_iters, exc,
                   exit_code>>

\* line 554
ModelSource(path, path_exists) == IF path # None /\ path_exists THEN path ELSE "fused"

\* how subprocess.run(['ollama', 'create', ...]) of line 580 can end: exit
\* status 0, a non-zero exit status, or no ollama executable to run
\* (FileNotFoundError: the call has no check=True but still raises then)
ImportOutcomes == {"created", "nonzero", "not_found"}

\* lines 541-588: the importing_ollama snapshot, the Modelfile, ollama create
ImportingOllama ==
    /\ At("importing")
    /\ write_progress(PostSnapshot("importing_ollama", 99, "Importing model to Ollama..."))
    /\ \E path_exists \in BOOLEAN : model_source' = ModelSource(gguf_path, path_exists)
    /\ invoked' = Append(invoked, "import")
    /\ \E result \in ImportOutcomes :
          /\ outcome' = [outcome EXCEPT
                            !.import = IF result = "created" THEN "ok" ELSE "failed"]
          /\ IF result = "not_found"
             THEN Raise("No such file or directory: ollama")
             ELSE pc' = "completed" /\ UNCHANGED exc
    /\ UNCHANGED <<args, inputVars, scriptVars, splitVars, gguf_path, line, cmd, nlines, nckpt, observed, checkpoint_file,
                   resume_from_iter, loss_history, dataset_size, total_iters, exit_code>>

\* line 596: the message of the final snapshot
CompletedMessage(output) == <<"Training complete! Model:", output>>

\* the snapshot of lines 593-606
CompletedSnapshot ==
    [stage |-> "completed", progress |-> 100,
     message |-> CompletedMessage(args.output),
     epoch |-> args.epochs, total_epochs |-> args.epochs,
     loss |-> FinalLoss(loss_history), final_loss |-> FinalLoss(loss_history),
     learning_rate |-> <<>>, dataset_size |-> dataset_size,
     loss_history |-> loss_history, model_path |-> "fused",
     ollama_model |-> args.output]

\* lines 590-609 under a handler that also catches SystemExit (a bare
\* "except:"): sys.exit(0) lands in the failure handler
CompletedThenCaught ==
    /\ At("completed")
    /\ write_progress(CompletedSnapshot)
    /\ Raise("SystemExit: 0")
    /\ UNCHANGED <<args, inputVars, scriptVars, splitVars, postVars, observed, checkpoint_file, resume_from_iter,
                   loss_history, dataset_size, total_iters, exit_code, invoked>>

\* lines 590-608
Completed ==
    /\ At("completed")
    /\ write_progress(CompletedSnapshot)
    /\ pc' = "sys_exit_0"
    /\ UNCHANGED <<args, inputVars, scriptVars, splitVars, postVars, observed, checkpoint_file, resume_from_iter,
                   loss_history, dataset_size, total_iters, exc, exit_code, invoked>>

\* the snapshot of lines 614-623
FailedSnapshot(e) ==
    [stage |-> "failed", progress |-> 0, message |-> <<"Training failed:", e>>,
     error |-> <<e, "traceback">>, epoch |-> 0, total_epochs |-> args.epochs,
     loss |-> <<>>, learning_rate |-> <<>>]

\* lines 611-624: the outer except clause
ExceptHandler ==
    /\ At("except")
    /\ write_progress(FailedSnapshot(exc))
    /\ pc' = "sys_exit_1"
    /\ UNCHANGED <<args, inputVars, scriptVars, splitVars, postVars, observed, checkpoint_file, resume_from_iter,
                   loss_history, dataset_size, total_iters, exc, exit_code, invoked>>

\* lines 609 and 625: sys.exit
SysExit ==
    /\ pc \in {"sys_exit_0", "sys_exit_1"}
    /\ wphase = "idle"
    /\ exit_code' = <<IF pc = "sys_exit_0" THEN 0 ELSE 1>>
    /\ pc' = "exited"
    /\ UNCHANGED <<args, inputVars, scriptVars, splitVars, fileVars, postVars, observed, checkpoint_file, resume_from_iter,
                   loss_history, dataset_size, total_iters, exc, invoked>>

----------------------------------------------------------------------------
(* write_progress, lines 18-21, after the open: the file on disk *)

\* json.dump fills the file object's buffer; a full buffer is flushed, which
\* leaves a prefix of the JSON text on disk
write_progress_flush ==
    /\ wphase = "truncated"
    /\ wphase' = "partial"
    /\ UNCHANGED <<pc, args, inputVars, scriptVars, splitVars, progress_file, nwrites, postVars, observed, checkpoint_file,
                   resume_from_iter, loss_history, dataset_size, total_iters, exc,
                   exit_code, invoked>>

\* the with block closes the file: the whole JSON text is on disk
write_progress_close ==
    /\ wphase \in {"truncated", "partial"}
    /\ wphase' = "idle"
    /\ UNCHANGED <<pc, args, inputVars, scriptVars, splitVars, progress_file, nwrites, postVars, observed, checkpoint_file,
                   resume_from_iter, loss_history, dataset_size, total_iters, exc,
                   exit_code, invoked>>

\* what a reader of the progress file gets now
OnDisk ==
    IF progress_file = <<>> THEN "absent"
    ELSE IF wphase = "truncated" THEN "empty"
    ELSE IF wphase = "partial" THEN "partial"
    ELSE "complete"

\* the external monitor (the Node.js service) reads the progress file
MonitorRead ==
    /\ observed' = OnDisk
    /\ UNCHANGED <<pc, args, inputVars, scriptVars, splitVars, fileVars, postVars, checkpoint_file, resume_from_iter,
                   loss_history, dataset_size, total_iters, exc, exit_code, invoked>>

----------------------------------------------------------------------------

Next ==
    \/ LoadConfig
    \/ Validate
    \/ Initializing
    \/ Installing
    \/ LoadingModel
    \/ PreparingData
    \/ CheckResume
    \/ ConvertDataset
    \/ DirectImports
    \/ DirectLoad
    \/ TrainingStart
    \/ ReadLine
    \/ ProcessExit
    \/ FusingModel
    \/ ConvertingGguf
    \/ ImportingOllama
    \/ Completed
    \/ ExceptHandler
    \/ SysExit
    \/ write_progress_flush
    \/ write_progress_close

Spec == Init /\ [][Next]_vars

\* the run together with the external monitor of the progress file
NextMonitored == Next \/ MonitorRead

SpecMonitored == Init /\ [][NextMonitored]_vars

----------------------------------------------------------------------------
(* convert_jsonl_to_mlx_format, lines 35-71, on its own *)

\* longest dataset file
MaxFileLines == 10

\* a line of the dataset file: whitespace only, a JSON object, or text that
\* json.loads rejects
LineKinds == {"blank", "record", "garbage"}

InputFiles == UNION {[1..k -> LineKinds] : k \in 0..MaxFileLines}

\* lines 37-54: one example per non-blank line, in file order; the example is
\* represented by the number of the line its text was rendered from
Examples(f) == SelectSeq([i \in 1..Len(f) |-> i], LAMBDA i : f[i] = "record")

\* line 57 without the max()
SplitIndexUnfloored(n) == (n * 9) \div 10

\* line 57: int(n * 0.9) is (9n) // 10 for every n below 200000
SplitIndex(n) == Max(1, (n * 9) \div 10)

\* line 58, examples[:split_idx]
TrainSplit(examples) ==
    SubSeq(examples, 1, Min(SplitIndex(Len(examples)), Len(examples)))

\* line 59, examples[split_idx:] or examples[-1:]
ValidSplit(examples) ==
    IF SplitIndex(Len(examples)) < Len(examples)
    THEN SubSeq(examples, SplitIndex(Len(examples)) + 1, Len(examples))
    ELSE LastN(examples, 1)

\* lines 35-71: json.loads raises before any file is written
convert_jsonl_to_mlx_format ==
    /\ At("convert_jsonl")
    /\ IF \E i \in 1..Len(input_path) : input_path[i] = "garbage"
       THEN /\ Raise("JSONDecodeError")
            /\ UNCHANGED <<train_data, valid_data, dataset_size>>
       ELSE /\ train_data' = TrainSplit(Examples(input_path))
            /\ valid_data' = ValidSplit(Examples(input_path))
            /\ dataset_size' = Len(Examples(input_path))
            /\ pc' = "converted"
            /\ UNCHANGED exc
    /\ UNCHANGED <<args, inputVars, scriptVars, input_path, fileVars, postVars, observed, checkpoint_file,
                   resume_from_iter, loss_history, total_iters, exit_code, invoked>>

InitDataset ==
    \E f \in InputFiles :
        Start("convert_jsonl", FullCli(1, FALSE, None), [readable |-> FALSE],
              [exists |-> FALSE], f)

NextDataset == convert_jsonl_to_mlx_format

SpecDataset == InitDataset /\ [][NextDataset]_vars

----------------------------------------------------------------------------
(* main(), lines 86-117, over every combination of options and config keys *)

\* command lines: each required option given or not, --resume, --config
AllCommandLines ==
    {[base_model |-> bm, dataset |-> ds, output |-> o, epochs |-> DefaultEpochs,
      progress_file |-> pf, output_dir |-> od, resume |-> r, config |-> c] :
        bm \in {None, "llama3.2:3b"}, ds \in {None, "cli.jsonl"}, o \in {None, "cli-out"},
        pf \in {None, "cli-progress.json"}, od \in {None, "cli-dir"},
        r \in BOOLEAN, c \in {None, "run.json"}}

ConfigKeys == DOMAIN FullConfig

\* per key of the config file: not there, null (string keys only), or a value
KeyChoices ==
    {ch \in [ConfigKeys -> {"absent", "null", "value"}] :
        ch["epochs"] # "null" /\ ch["resume"] # "null"}

\* the JSON object with the chosen keys
ConfigObject(ch) ==
    [k \in {key \in ConfigKeys : ch[key] # "absent"} |->
        IF ch[k] = "null" THEN None ELSE FullConfig[k]]

AllConfigFiles ==
    {[readable |-> FALSE]} \cup {[readable |-> TRUE, json |-> ConfigObject(ch)] : ch \in KeyChoices}

InitConfig ==
    \E a \in AllCommandLines :
        \E cf \in ConfigFilesFor(a, AllConfigFiles) :
            Start("load_config", a, cf, [exists |-> FALSE], <<>>)

\* the run up to its first snapshot
NextConfig ==
    \/ LoadConfig
    \/ Validate
    \/ Initializing
    \/ write_progress_flush
    \/ write_progress_close

SpecConfig == InitConfig /\ [][NextConfig]_vars

----------------------------------------------------------------------------
(* main() on a fine-tuning process that prints more progress lines than a
   snapshot keeps *)

\* "Iter 100: Train loss 0.158, ..." on every line
SteadyLines == {Line(TRUE, <<100>>, TRUE, <<158>>)}

\* one line more than loss_history[-50:] keeps
LongRunLines == SnapshotHistory + 1

\* lines 400-458 for that process
ReadSteadyLine == ReadLineFrom(SteadyLines, LongRunLines)

InitLongRun ==
    \E a \in {FullCli(1, FALSE, None), FullCli(1, FALSE, "run.json")} :
        \E cf \in ConfigFilesFor(a, ConfigFiles) :
            Start("load_config", a, cf, [exists |-> FALSE], <<>>)

NextLongRun ==
    \/ LoadConfig
    \/ Validate
    \/ Initializing
    \/ Installing
    \/ LoadingModel
    \/ PreparingData
    \/ CheckResume
    \/ ConvertDataset
    \/ DirectImports
    \/ DirectLoad
    \/ TrainingStart
    \/ ReadSteadyLine
    \/ ProcessExit
    \/ FusingModel
    \/ ConvertingGguf
    \/ ImportingOllama
    \/ Completed
    \/ ExceptHandler
    \/ SysExit
    \/ write_progress_flush
    \/ write_progress_close

SpecLongRun == InitLongRun /\ [][NextLongRun]_vars

----------------------------------------------------------------------------
(* main() killed inside save_checkpoint (lines 80-83), and started again
   with --resume *)

\* what checkpoint.json holds when the process dies inside save_checkpoint:
\* nothing (open(..., 'w') has truncated it), the first part of the JSON text,
\* or the whole text (json.dump had finished)
KillPoints == {"truncated", "partial", "written"}

\* lines 424-449 and then the death of the process inside save_checkpoint:
\* the history entry and the snapshot of this line are complete, the
\* checkpoint file is what the kill point left
KilledInSave ==
    /\ At("reading")
    /\ nlines < MaxLines
    /\ nlines' = nlines + 1
    /\ \E l \in OutputLines, how \in KillPoints :
          /\ Recorded(l)
          /\ line' = <<l>>
          /\ LET parsed == ParseLine(l)
                 train_loss == parsed.train_loss[1]
                 current_iter == AbsoluteIter(resume_from_iter, parsed.relative_iter)
                 history == Append(loss_history,
                                   [step |-> current_iter, loss |-> train_loss,
                                    epoch |-> CurrentEpoch(args.epochs, current_iter,
                                                           dataset_size)])
             IN /\ CheckpointDue(current_iter)
                /\ loss_history' = history
                /\ progress_file' = <<TrainingSnapshot(current_iter, train_loss, history)>>
                /\ nwrites' = nwrites + 1
                /\ checkpoint_file' =
                      IF how = "written"
                      THEN [exists |-> TRUE, valid |-> TRUE,
                            data |-> Checkpoint(current_iter, train_loss, history)]
                      ELSE [exists |-> TRUE, valid |-> FALSE]
    /\ pc' = "killed"
    /\ UNCHANGED <<args, inputVars, scriptVars, splitVars, wphase, gguf_path, model_source, outcome, cmd,
                   nckpt, observed, resume_from_iter, dataset_size, total_iters, exc,
                   exit_code, invoked>>

\* the operator starts the same command again with --resume added: a new
\* process, with the files the killed one left
ResumeAfterKill ==
    /\ pc = "killed"
    /\ pc' = "load_config"
    /\ args' = [cli EXCEPT !.resume = TRUE]
    /\ cli' = [cli EXCEPT !.resume = TRUE]
    /\ resume_from_iter' = 0
    /\ loss_history' = <<>>
    /\ dataset_size' = 0
    /\ total_iters' = 0
    /\ gguf_path' = None
    /\ model_source' = None
    /\ exc' = None
    /\ invoked' = <<>>
    /\ outcome' = [train |-> "not_run", fuse |-> "not_run", convert |-> "not_run",
                   import |-> "not_run"]
    /\ line' = <<>>
    /\ cmd' = <<>>
    /\ nlines' = 0
    /\ nwrites' = 0
    /\ nckpt' = 0
    /\ UNCHANGED <<config_file, splitVars, scriptVars, progress_file, wphase, observed,
                   checkpoint_file, exit_code>>

\* runs that find no checkpoint or a complete one
InitInterrupted ==
    \E a \in {FullCli(1, FALSE, None), FullCli(DefaultEpochs, TRUE, None),
              FullCli(1, TRUE, "run.json")},
       ck \in {c \in CheckpointFiles : c.exists => c.valid} :
        \E cf \in ConfigFilesFor(a, ConfigFiles) :
            Start("load_config", a, cf, ck, <<>>)

NextInterrupted ==
    \/ LoadConfig
    \/ Validate
    \/ Initializing
    \/ Installing
    \/ LoadingModel
    \/ PreparingData
    \/ CheckResume
    \/ ConvertDataset
    \/ DirectImports
    \/ DirectLoad
    \/ TrainingStart
    \/ ReadLine
    \/ ProcessExit
    \/ FusingModel
    \/ ConvertingGguf
    \/ ImportingOllama
    \/ Completed
    \/ ExceptHandler
    \/ SysExit
    \/ write_progress_flush
    \/ write_progress_close
    \/ KilledInSave
    \/ ResumeAfterKill

SpecInterrupted == InitInterrupted /\ [][NextInterrupted]_vars

----------------------------------------------------------------------------
(* convert_to_gguf.py: main(), lines 119-158, and the four steps it calls *)

\* line 123: the default of --work-dir
DefaultWorkDir == "/tmp/luddo-convert"

\* the namespace parse_args of lines 120-124 builds
ScriptCli(mlx, name, work) == [mlx_path |-> mlx, output_name |-> name, work_dir |-> work]

\* command lines of the script; None is a required option left out
ScriptCommandLines ==
    {ScriptCli(m, o, w) : m \in {"fused", None}, o \in {"luddo-ai", "luddo-v2", None},
                          w \in {DefaultWorkDir, "work"}}

\* work_dir/hf_model when the script starts: not there, or left by an earlier
\* run that failed after its copy step
HfModelDirs ==
    {[exists |-> FALSE, content |-> "none", existed |-> FALSE],
     [exists |-> TRUE, content |-> "stale", existed |-> TRUE]}

\* the steps main() calls at lines 135, 139, 143 and 147
ScriptSteps == <<"install", "copy", "convert", "create">>

\* the variables of train.py's main(), which the script does not touch
trainVars == <<fileVars, splitVars, config_file, observed, checkpoint_file, resume_from_iter,
               loss_history, dataset_size, total_iters, gguf_path, model_source, line, cmd,
               nlines, nckpt>>

InitConvert ==
    \E a \in ScriptCommandLines, d \in HfModelDirs :
        /\ pc = "parse_args"
        /\ args = a
        /\ cli = a
        /\ hf_path = d
        /\ exc = None
        /\ exit_code = <<>>
        /\ invoked = <<>>
        /\ outcome = [install |-> "not_run", copy |-> "not_run", convert |-> "not_run",
                      create |-> "not_run"]
        /\ config_file = [readable |-> FALSE]
        /\ input_path = <<>>
        /\ train_data = <<>>
        /\ valid_data = <<>>
        /\ progress_file = <<>>
        /\ wphase = "idle"
        /\ observed = "nothing"
        /\ checkpoint_file = [exists |-> FALSE]
        /\ resume_from_iter = 0
        /\ loss_history = <<>>
        /\ dataset_size = 0
        /\ total_iters = 0
        /\ gguf_path = None
        /\ model_source = None
        /\ line = <<>>
        /\ cmd = <<>>
        /\ nlines = 0
        /\ nwrites = 0
        /\ nckpt = 0

\* an exception inside the try block of lines 133-154
ScriptRaise(e) == pc' = "script_except" /\ exc' = e

\* lines 120-131: parse_args (argparse exits 2 when a required option is
\* missing), the working directory and the paths
ScriptParseArgs ==
    /\ pc = "parse_args"
    /\ IF args.mlx_path = None \/ args.output_name = None
       THEN pc' = "exited" /\ exit_code' = <<2>>
       ELSE pc' = "install" /\ UNCHANGED exit_code
    /\ UNCHANGED <<args, cli, hf_path, exc, invoked, outcome, trainVars>>

\* line 135 and lines 24-28: pip install with check=True
install_conversion_deps ==
    /\ pc = "install"
    /\ invoked' = Append(invoked, "install")
    /\ \E ok \in BOOLEAN :
          /\ outcome' = [outcome EXCEPT !.install = IF ok THEN "ok" ELSE "failed"]
          /\ IF CheckedRunRaises(ok)
             THEN ScriptRaise("pip install returned non-zero exit status")
             ELSE pc' = "copy" /\ UNCHANGED exc
    /\ UNCHANGED <<args, cli, hf_path, exit_code, trainVars>>

\* how shutil.copytree(src, dst) of line 43 can end: everything copied, src
\* not there (it raises before creating dst), or an error part of the way
CopyOutcomes == {"copied", "src_missing", "partial"}

\* lines 39-43: dst after rmtree of an existing dst and copytree
HfModelAfterCopy(how) ==
    CASE how = "copied" -> [exists |-> TRUE, content |-> "copied", existed |-> TRUE]
      [] how = "partial" -> [exists |-> TRUE, content |-> "partial", existed |-> TRUE]
      [] how = "src_missing" -> [exists |-> FALSE, content |-> "none",
                                 existed |-> hf_path.existed]

\* line 139 and lines 30-46
convert_mlx_to_hf ==
    /\ pc = "copy"
    /\ invoked' = Append(invoked, "copy")
    /\ \E how \in CopyOutcomes :
          /\ hf_path' = HfModelAfterCopy(how)
          /\ outcome' = [outcome EXCEPT !.copy = IF how = "copied" THEN "ok" ELSE "failed"]
          /\ IF how = "copied"
             THEN pc' = "convert" /\ UNCHANGED exc
             ELSE ScriptRaise("copytree failed")
    /\ UNCHANGED <<args, cli, exit_code, trainVars>>

\* line 73 without the test: a failed conversion goes unnoticed
ReturncodeIgnored(returncode) == FALSE

\* line 73
ReturncodeIsError(returncode) == returncode # 0

\* how convert_hf_to_gguf can end: the download of the convert script fails
\* (urlretrieve raises), or the script runs and exits with 0 or 1
ConvertRuns == {[downloaded |-> FALSE, returncode |-> 1],
                [downloaded |-> TRUE, returncode |-> 0],
                [downloaded |-> TRUE, returncode |-> 1]}

\* line 143 and lines 48-78
convert_hf_to_gguf ==
    /\ pc = "convert"
    /\ invoked' = Append(invoked, "convert")
    /\ \E run \in ConvertRuns :
          /\ outcome' = [outcome EXCEPT
                            !.convert = IF run.downloaded /\ run.returncode = 0
                                        THEN "ok" ELSE "failed"]
          /\ IF ~run.downloaded
             THEN ScriptRaise("URLError")
             ELSE IF ReturncodeIsError(run.returncode)
             THEN ScriptRaise("GGUF conversion failed")
             ELSE pc' = "create" /\ UNCHANGED exc
    /\ UNCHANGED <<args, cli, hf_path, exit_code, trainVars>>

\* line 147 and lines 80-117: ollama create; a non-zero exit status raises at
\* line 115, a missing executable raises FileNotFoundError
create_ollama_model ==
    /\ pc = "create"
    /\ invoked' = Append(invoked, "create")
    /\ \E result \in ImportOutcomes :
          /\ outcome' = [outcome EXCEPT !.create = IF result = "created" THEN "ok" ELSE "failed"]
          /\ IF result = "created"
             THEN pc' = "cleanup" /\ UNCHANGED exc
             ELSE ScriptRaise(IF result = "nonzero" THEN "Ollama create failed"
                              ELSE "No such file or directory: ollama")
    /\ UNCHANGED <<args, cli, hf_path, exit_code, trainVars>>

\* lines 149-154: the success message, then rmtree of hf_model if it exists
ScriptCleanup ==
    /\ pc = "cleanup"
    /\ hf_path' = IF hf_path.exists
                  THEN [exists |-> FALSE, content |-> "none", existed |-> TRUE]
                  ELSE hf_path
    /\ pc' = "script_end"
    /\ UNCHANGED <<args, cli, exc, exit_code, invoked, outcome, trainVars>>

\* lines 156-158: the except clause
ScriptExcept ==
    /\ pc = "script_except"
    /\ exit_code' = <<1>>
    /\ pc' = "exited"
    /\ UNCHANGED <<args, cli, hf_path, exc, invoked, outcome, trainVars>>

\* main() returns: the interpreter exits with status 0
ScriptEnd ==
    /\ pc = "script_end"
    /\ exit_code' = <<0>>
    /\ pc' = "exited"
    /\ UNCHANGED <<args, cli, hf_path, exc, invoked, outcome, trainVars>>

NextConvert ==
    \/ ScriptParseArgs
    \/ install_conversion_deps
    \/ convert_mlx_to_hf
    \/ convert_hf_to_gguf
    \/ create_ollama_model
    \/ ScriptCleanup
    \/ ScriptExcept
    \/ ScriptEnd

SpecConvert == InitConvert /\ [][NextConvert]_vars

----------------------------------------------------------------------------
(* Properties *)

\* the snapshot most recently given to write_progress
Snap == progress_file[1]

Written == progress_file # <<>>

Exited == pc = "exited"

\* C1: over the snapshots one run writes, progress never decreases from one
\* snapshot to the next.
C1_ProgressNeverDecreases ==
    [][(Written /\ progress_file' # <<>>)
          => progress_file'[1].progress >= Snap.progress]_vars

\* C2: a snapshot of stage training has progress in 0..95; a snapshot has
\* progress 100 only if its stage is completed, and no snapshot is written
\* after it.
C2_TrainingProgressBounded ==
    /\ [](Written =>
            /\ (Snap.stage = "training" => Snap.progress \in 0..95)
            /\ (Snap.progress = 100 => Snap.stage = "completed"))
    /\ [][(Written /\ Snap.progress = 100)
             => (progress_file' = progress_file /\ nwrites' = nwrites)]_vars

\* C2 witness: a training snapshot reporting an iteration past total_iters,
\* where only the clamp keeps progress at 95
C2_Witness ==
    /\ Written
    /\ Snap.stage = "training"
    /\ "step" \in DOMAIN Snap
    /\ Snap.step > Snap.total_steps
    /\ Snap.progress = 95

\* the run has resumed from a checkpoint whose last_iter is at least the
\* total_iters computed for this run (dataset_size > 0: line 246 has run)
ResumedPastEnd ==
    /\ args.resume
    /\ dataset_size > 0
    /\ resume_from_iter > 0
    /\ resume_from_iter >= total_iters

\* C3: a run resumed from a checkpoint with last_iter >= total_iters never
\* launches the fine-tuning process, reads no line, appends no loss-history
\* entry, saves no checkpoint, and goes from the training snapshot straight
\* to the fuse step.
C3_ResumePastEndSkipsTraining ==
    /\ [](ResumedPastEnd =>
            /\ cmd = <<>>
            /\ \A i \in 1..Len(invoked) : invoked[i] # "train"
            /\ pc # "reading"
            /\ nlines = 0
            /\ nckpt = 0
            /\ (pc \notin {"convert_dataset", "direct_imports"} => loss_history = <<>>))
    /\ [][(ResumedPastEnd /\ pc = "training_start" /\ pc' # pc) => pc' = "fusing"]_vars

\* C3 witness: last_iter = total_iters = 200, the run is at the fuse step
C3_Witness ==
    /\ ResumedPastEnd
    /\ resume_from_iter = total_iters
    /\ pc = "fusing"
    /\ Snap.stage = "training"

\* C4: a monitor reading the progress file never gets an empty or partly
\* written file.
C4_MonitorSeesWholeSnapshots == observed \in {"nothing", "absent", "complete"}

\* C5: an exception raised anywhere in the run ends it with a last snapshot
\* of stage failed that carries the error text, and a non-zero exit code.
C5_EveryExceptionReported ==
    (Exited /\ exc # None) =>
        /\ Written
        /\ Snap.stage = "failed"
        /\ "error" \in DOMAIN Snap
        /\ Snap.error[1] = exc
        /\ exit_code # <<0>>

\* C6: the exit code is 0 exactly when the last snapshot is completed, and 1
\* exactly when the failure was caught, the last snapshot then being failed
\* with an error field.
C6_ExitCodeMatchesLastSnapshot ==
    Exited =>
        /\ (exit_code = <<0>>) <=> (Written /\ Snap.stage = "completed")
        /\ (exit_code = <<1>>) <=> (Written /\ Snap.stage = "failed")
        /\ (exit_code = <<1>>) => "error" \in DOMAIN Snap

\* C7: when the conversion step failed, the import step is still started with
\* the fused directory as model source and the run ends completed.
C7_ConversionFailureNotFatal ==
    (Exited /\ outcome.convert = "failed") =>
        /\ \E i \in 1..Len(invoked) : invoked[i] = "import"
        /\ model_source = "fused"
        /\ Snap.stage = "completed"

\* C8: the final snapshot of a run that fell back to the fused model has a
\* message other than the one of a run whose conversion succeeded.
C8_DegradedOutcomeInMessage ==
    (Written /\ Snap.stage = "completed" /\ outcome.convert = "failed")
        => Snap.message # CompletedMessage(args.output)

\* C9: when the import step failed, the run still ends with a completed
\* snapshot of progress 100 and exit code 0.
C9_ImportFailureNotFatal ==
    (Exited /\ outcome.import = "failed") =>
        /\ Snap.stage = "completed"
        /\ Snap.progress = 100
        /\ exit_code = <<0>>

\* C10: when the fuse step failed, neither conversion nor import is started,
\* no completed snapshot is written, and the run ends failed.
C10_FuseFailureFatal ==
    outcome.fuse = "failed" =>
        /\ \A i \in 1..Len(invoked) : invoked[i] \notin {"convert", "import"}
        /\ outcome.convert = "not_run"
        /\ outcome.import = "not_run"
        /\ Snap.stage # "completed"
        /\ pc \in {"except", "sys_exit_1", "exited"}
        /\ (pc \in {"sys_exit_1", "exited"} => Snap.stage = "failed")
        /\ (Exited => exit_code = <<1>>)

\* C10 witness: the run has exited after mlx_lm fuse failed
C10_Witness ==
    /\ Exited
    /\ outcome.fuse = "failed"
    /\ Snap.stage = "failed"
    /\ invoked[Len(invoked)] = "fuse"

\* C11: when the fine-tuning process exits with a non-zero status, which the
\* code learns after the read loop has consumed its output, the run fails: no
\* 'fusing_model' (or later) snapshot is written, mlx_lm fuse is never invoked,
\* and the last snapshot of the run is 'failed'
C11_TrainingFailureFatal ==
    outcome.train = "failed" =>
        /\ \A i \in 1..Len(invoked) : invoked[i] # "fuse"
        /\ outcome.fuse = "not_run"
        /\ line = <<>>
        /\ (Written => Snap.stage \notin {"fusing_model", "converting_gguf",
                                          "importing_ollama", "completed"})
        /\ pc \in {"except", "sys_exit_1", "exited"}
        /\ (pc \in {"sys_exit_1", "exited"} => Snap.stage = "failed")
        /\ (Exited => exit_code = <<1>>)

\* C11 witness: the run has exited after the fine-tuning process printed
\* progress and then failed
C11_Witness ==
    /\ Exited
    /\ Written
    /\ invoked # <<>>
    /\ outcome.train = "failed"
    /\ nlines > 0
    /\ loss_history # <<>>
    /\ Snap.stage = "failed"
    /\ invoked[Len(invoked)] = "train"

\* the line just handled carries both markers and its parsing raised
Malformed(l) == l # <<>> /\ l[1].signal /\ ParseLine(l[1]).raised

\* C12: a line that carries the progress markers but cannot be parsed never
\* raises out of the read loop, and leaves the loss history, the progress file
\* and the checkpoint file exactly as they were
C12_MalformedLineIgnored ==
    [][(pc = "reading" /\ nlines' = nlines + 1 /\ Malformed(line')) =>
          /\ pc' = "reading"
          /\ exc' = exc
          /\ loss_history' = loss_history
          /\ progress_file' = progress_file
          /\ wphase' = wphase
          /\ nwrites' = nwrites
          /\ checkpoint_file' = checkpoint_file
          /\ nckpt' = nckpt]_vars

\* C12 witness: a malformed line has just been handled in a run that already
\* recorded a loss and wrote a checkpoint, and the loop goes on
C12_Witness ==
    /\ pc = "reading"
    /\ Malformed(line)
    /\ loss_history # <<>>
    /\ nckpt > 0
    /\ Snap.stage = "training"

\* the epoch the claim gives to absolute iteration i, from the arguments and
\* the dataset size of the run
EpochAt(i) == Min(args.epochs, i \div Max(1, dataset_size \div 4) + 1)

\* C13: for every progress line parsed at absolute iteration i, the epoch in
\* the training snapshot and in the loss-history entry it produces is
\* min(total_epochs, i // iters_per_epoch + 1), and lies in 1..total_epochs
C13_EpochFromIteration ==
    /\ (Written /\ Snap.stage = "training" /\ "step" \in DOMAIN Snap) =>
          /\ Snap.epoch = EpochAt(Snap.step)
          /\ Snap.total_epochs = args.epochs
          /\ 1 <= Snap.epoch /\ Snap.epoch <= Snap.total_epochs
    /\ nlines > 0 =>
          \A k \in 1..Len(loss_history) :
              /\ loss_history[k].epoch = EpochAt(loss_history[k].step)
              /\ 1 <= loss_history[k].epoch /\ loss_history[k].epoch <= args.epochs

\* C13 witness: a progress line at or past the last iteration has been
\* recorded in a run of several epochs, and its epoch is the last one
C13_Witness ==
    /\ pc = "reading"
    /\ Written /\ Snap.stage = "training" /\ "step" \in DOMAIN Snap
    /\ Snap.step >= total_iters
    /\ args.epochs > 1
    /\ Snap.epoch = args.epochs
    /\ loss_history # <<>>
    /\ loss_history[Len(loss_history)].epoch = Snap.epoch

\* the stage vocabulary of the progress file
Stages ==
    {"initializing", "installing", "loading_model", "preparing_data", "resuming",
     "starting_training", "applying_lora", "training", "fusing_model",
     "converting_gguf", "importing_ollama", "completed", "failed"}

\* C14: every snapshot's stage is one of the thirteen stage names, and once a
\* 'completed' or 'failed' snapshot has been written the run writes no further
\* snapshot and launches no further external step
C14_StagesAndTerminalSnapshots ==
    /\ [](Written => Snap.stage \in Stages)
    /\ [][(Written /\ Snap.stage \in {"completed", "failed"}) =>
             /\ progress_file' = progress_file
             /\ nwrites' = nwrites
             /\ invoked' = invoked
             /\ cmd' = cmd
             /\ outcome' = outcome]_vars

\* C14 witness: the run has exited after its 'completed' snapshot, past
\* every external step
C14_Witness ==
    /\ Exited
    /\ Written
    /\ Snap.stage = "completed"
    /\ exit_code = <<0>>
    /\ nlines > 0
    /\ invoked # <<>>
    /\ invoked[Len(invoked)] = "import"

\* the number of JSON lines of the dataset file
RecordCount == Cardinality({i \in 1..Len(input_path) : input_path[i] = "record"})

\* C15: for a dataset of N >= 1 examples convert_jsonl_to_mlx_format writes
\* max(1, floor(0.9 N)) training examples and N minus that many validation
\* examples when that is positive, else one (the last training example); the
\* validation split is never empty, the two splits together hold at least N
\* examples, and N = 10 gives 9 and 1
C15_DatasetSplit ==
    (pc = "converted" /\ RecordCount >= 1) =>
        LET N == RecordCount
            train == Len(train_data)
            valid == Len(valid_data)
        IN /\ dataset_size = N
           /\ train = Max(1, (9 * N) \div 10)
           /\ valid = (IF N - train > 0 THEN N - train ELSE 1)
           /\ (N - train <= 0 => valid_data = <<train_data[train]>>)
           /\ valid_data # <<>>
           /\ train + valid >= N
           /\ (N = 10 => train = 9 /\ valid = 1)

\* C15 witness: a file of ten examples has been split
C15_Witness ==
    /\ pc = "converted"
    /\ RecordCount = 10
    /\ Len(train_data) = 9
    /\ valid_data = <<10>>

\* the config file's object as the run read it; empty without --config
ConfigRead ==
    IF cli.config # None /\ config_file.readable THEN config_file.json
    ELSE [k \in {} |-> None]

\* the config file's value for key when it defines the key, else the
\* command line's value
Resolved(key, cli_value) ==
    IF key \in DOMAIN ConfigRead THEN ConfigRead[key] ELSE cli_value

\* the config file could not be read: the run crashed at line 98-100
ConfigCrash == Exited /\ exit_code = <<1>> /\ exc = "config file cannot be read"

\* C16: each of base_model, dataset, output, epochs, progress_file, output_dir
\* and resume resolves to the config file's value when the config file defines
\* the field and to the command line's value otherwise; when one of base_model,
\* dataset, output, progress_file, output_dir is unset after the merge the run
\* is rejected before any snapshot is written or external process launched
C16_ConfigResolution ==
    /\ (pc # "load_config" /\ ~ConfigCrash) =>
          /\ args.base_model = Resolved("baseModel", cli.base_model)
          /\ args.dataset = Resolved("dataset", cli.dataset)
          /\ args.output = Resolved("output", cli.output)
          /\ args.epochs = Resolved("epochs", cli.epochs)
          /\ args.progress_file = Resolved("progressFile", cli.progress_file)
          /\ args.output_dir = Resolved("outputDir", cli.output_dir)
          /\ args.resume = Resolved("resume", cli.resume)
    /\ (pc \notin {"load_config", "validate"} /\ ~ConfigCrash
        /\ None \in {args.base_model, args.dataset, args.output, args.progress_file,
                     args.output_dir}) =>
          /\ Exited
          /\ exit_code = <<2>>
          /\ ~Written
          /\ nwrites = 0
          /\ invoked = <<>>
          /\ cmd = <<>>

\* C16 witness: the config file gave the model, the command line the dataset,
\* and a null outputDir in the config file unset the directory the command
\* line had given; the run was rejected
C16_Witness ==
    /\ Exited
    /\ exit_code = <<2>>
    /\ args.base_model = "qwen2.5:3b" /\ cli.base_model = "llama3.2:3b"
    /\ args.dataset = "cli.jsonl"
    /\ cli.output_dir = "cli-dir" /\ args.output_dir = None
    /\ ~Written

\* the line just handled parsed into a relative iteration and a loss
Parsed(l) ==
    /\ l # <<>>
    /\ l[1].signal
    /\ ~ParseLine(l[1]).raised
    /\ ParseLine(l[1]).train_loss # <<>>

\* C17: for every line that parses into a relative iteration r and a loss (any
\* float, 0.0 included) the run appends exactly one loss-history entry with
\* step = resume offset + r, writes one 'training' snapshot with progress
\* min(95, 30 + int(65 * step / total_iters)), and saves a checkpoint with
\* last_iter = step exactly when step is a multiple of 100
C17_EveryParsedLineRecorded ==
    [][(pc = "reading" /\ nlines' = nlines + 1 /\ Parsed(line')) =>
          LET step == resume_from_iter + ParseLine(line'[1]).relative_iter
              loss == ParseLine(line'[1]).train_loss[1]
          IN /\ Len(loss_history') = Len(loss_history) + 1
             /\ SubSeq(loss_history', 1, Len(loss_history)) = loss_history
             /\ loss_history'[Len(loss_history')].step = step
             /\ loss_history'[Len(loss_history')].loss = loss
             /\ nwrites' = nwrites + 1
             /\ progress_file'[1].stage = "training"
             /\ progress_file'[1].step = step
             /\ progress_file'[1].progress = Min(95, 30 + (65 * step) \div total_iters)
             /\ IF step % 100 = 0
                THEN /\ nckpt' = nckpt + 1
                     /\ checkpoint_file'.exists /\ checkpoint_file'.valid
                     /\ checkpoint_file'.data.last_iter = step
                ELSE /\ nckpt' = nckpt
                     /\ checkpoint_file' = checkpoint_file]_vars

\* s is a prefix of t
IsPrefix(s, t) == Len(s) <= Len(t) /\ SubSeq(t, 1, Len(s)) = s

\* C18: in a run resumed from a checkpoint the loss history restored from the
\* checkpoint is kept: its entries are a prefix of the loss history the later
\* snapshots and checkpoints are built from.  (Stated for the part of the run
\* in which checkpoint.json still is the file the run resumed from.)
C18_RestoredHistoryKept ==
    (resume_from_iter > 0 /\ nckpt = 0) =>
        IsPrefix(checkpoint_file.data.loss_history, loss_history)

\* C19: the loss history is append-only within a run, and every write that
\* carries it, each snapshot of every stage and each checkpoint, holds at most
\* the 50 most recent entries
C19_HistoryAppendOnlyAndCapped ==
    /\ [][IsPrefix(loss_history, loss_history')]_vars
    /\ []((Written /\ "loss_history" \in DOMAIN Snap) =>
             /\ Len(Snap.loss_history) <= 50
             /\ Snap.loss_history = LastN(loss_history, 50))
    /\ []((nckpt > 0 /\ checkpoint_file.exists /\ checkpoint_file.valid) =>
             /\ Len(checkpoint_file.data.loss_history) <= 50
             /\ checkpoint_file.data.loss_history = LastN(loss_history, 50))

\* the line just recorded reports an iteration among those the process was
\* asked to run (--iters, line 378)
WithinRequestedIters(l) ==
    /\ l # <<>>
    /\ Recorded(l[1])
    /\ cmd # <<>>
    /\ ParseLine(l[1]).relative_iter <= cmd[1].iters

\* C20: every checkpoint a run writes has last_iter <= total_iters, whatever
\* the resume offset loaded from disk and whichever iteration numbers, among
\* the remaining iterations it was asked to run, the process reports
C20_CheckpointWithinTotal ==
    [][(nckpt' = nckpt + 1 /\ WithinRequestedIters(line')) =>
          /\ checkpoint_file'.data.last_iter <= checkpoint_file'.data.total_iters
          /\ checkpoint_file'.data.last_iter <= total_iters
          /\ checkpoint_file'.data.total_iters = total_iters]_vars

\* C20 witness: a resumed run has just saved a checkpoint at the last of the
\* iterations it asked for
C20_Witness ==
    /\ pc = "reading"
    /\ nckpt > 0
    /\ resume_from_iter > 0
    /\ WithinRequestedIters(line)
    /\ ParseLine(line[1]).relative_iter = cmd[1].iters
    /\ checkpoint_file.data.last_iter = resume_from_iter + cmd[1].iters
    /\ checkpoint_file.data.last_iter = total_iters

\* C21: save_checkpoint is an atomic overwrite: when the process is
\* interrupted at any point of a checkpoint save, the load_checkpoint of a
\* later resumed run gets the complete previous checkpoint or the complete new
\* one, never a truncated or partial file that makes the resumed run fail.
\* (Every run here starts with no checkpoint or a complete one, so a file that
\* cannot be loaded is one an interrupted save left.)
C21_CheckpointSaveAtomic ==
    /\ load_checkpoint(checkpoint_file).found => ~load_checkpoint(checkpoint_file).raised
    /\ exc # "JSONDecodeError in checkpoint.json"

\* the iteration of the last entry of history that line 448 checkpoints, 0
\* when there is none
LastCheckpointStep(history) ==
    LET due == {k \in 1..Len(history) : history[k].step % 100 = 0}
    IN IF due = {} THEN 0
       ELSE history[CHOOSE k \in due : \A j \in due : j <= k].step

\* C22: whenever a run fails because the fine-tuning process exited non-zero,
\* a checkpoint is already on disk from which a later run with --resume
\* continues: load_checkpoint returns it and its last_iter, the later run's
\* resume offset, is not 0
C22_FailedTrainingLeavesCheckpoint ==
    outcome.train = "failed" =>
        /\ load_checkpoint(checkpoint_file).found
        /\ ~load_checkpoint(checkpoint_file).raised
        /\ load_checkpoint(checkpoint_file).data.last_iter > 0

\* C22, amended: whenever a run that saved at least one checkpoint fails
\* because the fine-tuning process exited non-zero, the checkpoint on disk is
\* complete and its last_iter, the resume offset of a later run with --resume,
\* is the last iteration the failed run checkpointed
C22_FailedTrainingKeepsSavedCheckpoint ==
    (outcome.train = "failed" /\ nckpt > 0) =>
        /\ load_checkpoint(checkpoint_file).found
        /\ ~load_checkpoint(checkpoint_file).raised
        /\ load_checkpoint(checkpoint_file).data.last_iter = LastCheckpointStep(loss_history)
        /\ load_checkpoint(checkpoint_file).data.last_iter > resume_from_iter

\* C22 witness: a resumed run has failed on the exit status of the
\* fine-tuning process after saving a checkpoint past its resume offset
C22_Witness ==
    /\ Exited
    /\ Written
    /\ Snap.stage = "failed"
    /\ outcome.train = "failed"
    /\ nckpt > 0
    /\ resume_from_iter > 0
    /\ checkpoint_file.data.last_iter > resume_from_iter

\* the place of an external step in the order training, fuse, conversion,
\* import
StepRank(step) ==
    CASE step = "train" -> 1
      [] step = "fuse" -> 2
      [] step = "convert" -> 3
      [] step = "import" -> 4

\* step has been started in this run
Invoked(step) == \E k \in DOMAIN invoked : invoked[k] = step

\* C23: the external steps of a run are invoked in the order training, fuse,
\* format conversion, import, each at most once; fuse is invoked only after
\* the fine-tuning process exited with code 0 or training was skipped,
\* conversion and import only after fuse succeeded, and the "completed"
\* snapshot is written only after the import step has returned
C23_ExternalStepsInOrder ==
    /\ \A i, j \in DOMAIN invoked : i < j => StepRank(invoked[i]) < StepRank(invoked[j])
    /\ Invoked("fuse") =>
          \/ Invoked("train") /\ outcome.train = "ok"
          \/ ~Invoked("train") /\ TrainingComplete(total_iters - resume_from_iter)
    /\ Invoked("convert") => Invoked("fuse") /\ outcome.fuse = "ok"
    /\ Invoked("import") => Invoked("convert") /\ outcome.fuse = "ok"
    /\ (Written /\ Snap.stage = "completed") =>
          /\ Invoked("import")
          /\ outcome.import \in {"ok", "failed"}
          /\ exc = None

\* C23 witness: a run that went through all four external steps has written
\* "completed" and exited
C23_Witness ==
    /\ Exited
    /\ Written
    /\ Snap.stage = "completed"
    /\ invoked = <<"train", "fuse", "convert", "import">>
    /\ outcome.train = "ok"
    /\ outcome.fuse = "ok"

\* C24: a resumed run launches the fine-tuning process for exactly
\* total_iterations - last_iter iterations, total_iterations being
\* max(1, dataset_size // 4) * epochs, and always passes the adapter-resume
\* file argument; a fresh run asks for total_iterations and passes no
\* adapter-resume argument
C24_LaunchArguments ==
    cmd # <<>> =>
        /\ total_iters = Max(1, dataset_size \div 4) * args.epochs
        /\ IF resume_from_iter > 0
           THEN /\ cmd[1].iters = total_iters - resume_from_iter
                /\ cmd[1].resume_adapter_file
           ELSE /\ cmd[1].iters = total_iters
                /\ ~cmd[1].resume_adapter_file

\* the resume check of a run with --resume that finds no checkpoint.json
ResumeWithoutCheckpoint ==
    /\ pc = "check_resume"
    /\ pc' # "check_resume"
    /\ args.resume
    /\ ~checkpoint_file.exists

\* what the resume check of a run without --resume does (lines 209-211)
FreshResumeCheck ==
    /\ pc' = "convert_dataset"
    /\ resume_from_iter' = 0
    /\ loss_history' = <<>>
    /\ UNCHANGED <<args, inputVars, scriptVars, splitVars, postVars, fileVars, observed, checkpoint_file,
                   dataset_size, total_iters, exc, exit_code, invoked>>

\* C25: a run started with --resume when no checkpoint file exists behaves
\* like a fresh run: its resume check does exactly what that of a run without
\* --resume does (offset 0, empty history, no "resuming" snapshot, nothing else
\* touched); the offset is set nowhere else, "resuming" is written only by a
\* resume check that found a checkpoint, and with offset 0 the fine-tuning
\* process is asked for every iteration without an adapter-resume argument
C25_ResumeWithoutCheckpointIsFresh ==
    /\ [][ResumeWithoutCheckpoint => FreshResumeCheck]_vars
    /\ [][pc # "check_resume" => resume_from_iter' = resume_from_iter]_vars
    /\ [][(progress_file' # progress_file /\ progress_file' # <<>>
             /\ progress_file'[1].stage = "resuming")
          => (pc = "check_resume" /\ args.resume /\ checkpoint_file.exists)]_vars
    /\ []((cmd # <<>> /\ resume_from_iter = 0) =>
             (cmd[1].iters = total_iters /\ ~cmd[1].resume_adapter_file))

\* C25 witness: a run with --resume that found no checkpoint has launched the
\* fine-tuning process from iteration 0
C25_Witness ==
    /\ pc = "reading"
    /\ args.resume
    /\ ~checkpoint_file.exists
    /\ nckpt = 0
    /\ resume_from_iter = 0
    /\ loss_history = <<>>
    /\ cmd # <<>>
    /\ cmd[1].iters = total_iters
    /\ ~cmd[1].resume_adapter_file

\* every step of the script has run and succeeded
AllSucceeded == \A k \in 1..Len(ScriptSteps) : outcome[ScriptSteps[k]] = "ok"

\* a step of the script has failed
SomeFailed == \E k \in 1..Len(ScriptSteps) : outcome[ScriptSteps[k]] = "failed"

\* the steps run in the order install, copy, convert, create, each only if all
\* earlier ones succeeded; exit status 0 only if all succeeded, and a failure
\* ends the run with exit status 1 before any later step
ScriptStepsGated ==
    /\ Len(invoked) <= Len(ScriptSteps)
    /\ \A k \in DOMAIN invoked :
          /\ invoked[k] = ScriptSteps[k]
          /\ \A j \in 1..(k - 1) : outcome[ScriptSteps[j]] = "ok"
    /\ \A k \in 1..Len(ScriptSteps) :
          outcome[ScriptSteps[k]] # "not_run" => k \in DOMAIN invoked
    /\ (Exited /\ exit_code = <<0>>) => AllSucceeded
    /\ SomeFailed => /\ pc \in {"script_except", "exited"}
                     /\ Exited => exit_code = <<1>>

\* C26: in the conversion script the steps install-deps, copy-to-HF,
\* convert-to-GGUF and create-serving-model run in that order, each only if
\* all earlier ones succeeded; the script exits 0 only if all succeeded and 1
\* as soon as one fails; and an hf_model directory that was on disk is gone
\* only after full success (on any failure it is still there)
C26_ConversionScript ==
    /\ ScriptStepsGated
    /\ (hf_path.existed /\ ~hf_path.exists) => AllSucceeded

\* C26, amended: the steps and exit statuses as above; the hf_model directory
\* the copy step made is removed only on full success (a run that fails after
\* its copy step leaves the copied directory on disk), and a failing run
\* removes an hf_model directory only in a copy step that fails, which deletes
\* the directory an earlier run left before it copies
C26_ConversionScriptOwnCopyKept ==
    /\ ScriptStepsGated
    /\ (outcome.copy = "ok" /\ ~AllSucceeded) =>
          (hf_path.exists /\ hf_path.content = "copied")
    /\ (hf_path.existed /\ ~hf_path.exists /\ ~AllSucceeded) => outcome.copy = "failed"
    /\ (Exited /\ AllSucceeded) => ~hf_path.exists

\* C26 witness: the script has exited with status 1 after a failed GGUF
\* conversion, with the copied hf_model still on disk and no ollama create
C26_Witness ==
    /\ Exited
    /\ exit_code = <<1>>
    /\ invoked = <<"install", "copy", "convert">>
    /\ outcome.copy = "ok"
    /\ outcome.convert = "failed"
    /\ hf_path.exists
    /\ hf_path.content = "copied"

====
